---- MODULE Spec2Model ----
(***************************************************************************)
(* Model of the front-end's Request Pipeline (src/frontend/src/lib/api.ts) *)
(* and Session Controller (src/frontend/src/hooks/useAuth.ts over          *)
(* src/frontend/src/lib/auth.ts).                                          *)
(*                                                                         *)
(* PipelineSpec : one call of request() through the verbs of `api`.        *)
(* Spec         : one useAuth() instance, its asynchronous operations and  *)
(*                the other tabs that share localStorage.                  *)
(***************************************************************************)
EXTENDS Integers, Sequences, FiniteSets, Bags, TLC

VARIABLES
    cred,       \* localStorage['token'] of the origin (NoToken: no item)
    \* ---- request(), api.ts:50-101 ----
    rpc,        \* position of request(): idle, fetch, delay, returned, thrown
    call,       \* the verb call that started it: [verb, data, options]
    fetchInit,  \* the RequestInit handed to fetch: [method, body, headers]
    retries,    \* options.retries after destructuring
    timeout,    \* options.timeout after destructuring
    attempt,    \* the loop variable of api.ts:69
    timers,     \* timers[a+1]: the setTimeout of attempt a: [st, ms]
    sent,       \* the fetch calls made: [init, signal]
    log,        \* how each attempt ended: "failed" or "ok"
    delays,     \* the arguments of the delay() calls, in order
    lastError,  \* api.ts:67
    received,   \* the response the latest finished attempt got, if it got one
    result,     \* what request() returned or threw
    \* ---- useAuth(), useAuth.ts:15-183, one entry per hook instance ----
    mounted,    \* whether the instance's effects have run
    state,      \* the AuthState: [user, loading, error, isAuthenticated]
    ops,        \* position of login / signup / refreshToken, and the user
                \* each got from the backend
    checks,     \* the bag of checkAuth calls awaiting getCurrentUser()
    events,     \* storage events for key 'token' not yet dispatched
    nav,        \* the latest router.push
    settled,    \* the latest operation that settled, and how
    staleWrite  \* whether `state` was last written by a checkAuth that began
                \* before a logout() cleared the Credential

pvars == <<rpc, call, fetchInit, retries, timeout, attempt, timers, sent, log,
           delays, lastError, received, result>>

svars == <<mounted, state, ops, checks, events, nav, settled, staleWrite>>

----------------------------------------------------------------------------
(* Program constants, api.ts:4-6 *)
REQUEST_TIMEOUT == 30000
MAX_RETRIES == 3
RETRY_DELAY == 1000

(* Bounds of the model *)
MaxRetriesOpt == 1      \* largest per-request `retries` override drawn
MaxChecks == 2          \* checkAuth calls in flight in one instance
MaxEvents == 1          \* storage events queued for one instance

----------------------------------------------------------------------------
(* Credentials *)
NoToken == "none"
Tokens == {"T1", "T2"}
Credentials == Tokens \cup {NoToken}

----------------------------------------------------------------------------
(* JSON values, as response.json() yields them and JSON.stringify reads them *)
Undefined == [t |-> "undefined"]
Null == [t |-> "null"]
Str(s) == [t |-> "str", s |-> s]
Arr(items) == [t |-> "arr", items |-> items]
Obj(keys, vals) == [t |-> "obj", keys |-> keys, vals |-> vals]
FormData == [t |-> "formdata"]
Text(s) == [t |-> "text", s |-> s]     \* a string used as a request body
EmptyObj == Obj(<<>>, <<>>)

RECURSIVE JSONStringify(_)
RECURSIVE StringifyItems(_)
RECURSIVE StringifyMembers(_, _)

(* JSON.stringify of a list of array items, comma separated *)
StringifyItems(items) ==
    IF items = <<>> THEN ""
    ELSE JSONStringify(Head(items))
         \o (IF Len(items) > 1 THEN "," ELSE "")
         \o StringifyItems(Tail(items))

(* JSON.stringify of the members of an object, in key order *)
StringifyMembers(keys, vals) ==
    IF keys = <<>> THEN ""
    ELSE "\"" \o Head(keys) \o "\":" \o JSONStringify(Head(vals))
         \o (IF Len(keys) > 1 THEN "," ELSE "")
         \o StringifyMembers(Tail(keys), Tail(vals))

(* JSON.stringify: a FormData has no own enumerable property and gives "{}" *)
JSONStringify(v) ==
    CASE v.t = "null" -> "null"
      [] v.t = "str" -> "\"" \o v.s \o "\""
      [] v.t = "arr" -> "[" \o StringifyItems(v.items) \o "]"
      [] v.t = "obj" -> "{" \o StringifyMembers(v.keys, v.vals) \o "}"
      [] v.t = "formdata" -> "{}"

RequiredMsg == Str("This field is required.")
ShortMsg == Str("Too short.")
ProfileBody(u) == Obj(<<"id", "username">>, <<Str(u), Str(u)>>)
ValidationBodies ==
    { Obj(<<"email">>, <<Arr(<<RequiredMsg>>)>>),
      Obj(<<"email", "password">>,
          <<Arr(<<RequiredMsg>>), Arr(<<RequiredMsg, ShortMsg>>)>>) }

(* The parsed bodies a backend answer may carry *)
JSONValues ==
    ValidationBodies
    \cup {Null, EmptyObj, Str(""), ProfileBody("U1"),
          Obj(<<"message">>, <<Str("Not found")>>)}

(* JSON.parse over the values above: the value whose text is s, if any *)
JSONParseable(s) == \E v \in JSONValues : JSONStringify(v) = s
JSONParse(s) == CHOOSE v \in JSONValues : JSONStringify(v) = s

(* JavaScript truthiness of a parsed value *)
Truthy(v) ==
    CASE v.t \in {"null", "undefined"} -> FALSE
      [] v.t = "str" -> v.s # ""
      [] OTHER -> TRUE

(* Object.keys(v).length *)
ObjectKeysLength(v) ==
    CASE v.t = "obj" -> Len(v.keys)
      [] v.t = "arr" -> Len(v.items)
      [] v.t = "str" -> Len(v.s)
      [] OTHER -> 0

(* v.message for a value that is neither null nor undefined *)
MessageOf(v) ==
    IF v.t = "obj" /\ \E i \in 1..Len(v.keys) : v.keys[i] = "message"
    THEN v.vals[CHOOSE i \in 1..Len(v.keys) : v.keys[i] = "message"]
    ELSE Undefined

----------------------------------------------------------------------------
(* Errors: an Error object has a name and a message, and no other field *)
Err(name, message) == [name |-> name, message |-> message]
NoError == [name |-> "none", message |-> ""]
FailedToFetch == Err("TypeError", "Failed to fetch")
OtherFetchFailure == Err("TypeError", "NetworkError when attempting to fetch resource.")
AbortError == Err("AbortError", "The operation was aborted.")
NullMessageError == Err("TypeError", "Cannot read properties of null (reading 'message')")
InvalidJSONError == Err("SyntaxError", "Unexpected token < in JSON")
NetworkErrorMessage == "Network error: Please check your internet connection"
GenericMessage == "An error occurred"

(* Responses of the backend: a status and a body, the body JSON or not *)
ResponseOk(status) == status >= 200 /\ status <= 299
Responses ==
    {[status |-> 200, json |-> TRUE, data |-> ProfileBody("U1")],
     [status |-> 500, json |-> TRUE, data |-> Null],
     [status |-> 400, json |-> TRUE, data |-> EmptyObj],
     [status |-> 404, json |-> TRUE, data |-> Obj(<<"message">>, <<Str("Not found")>>)]}
    \cup {[status |-> 400, json |-> TRUE, data |-> d] : d \in ValidationBodies}

(* A handleResponse that reports every failure by one plain message *)
handleResponseFlat(response) ==
    IF ResponseOk(response.status) /\ response.data.t # "null"
    THEN [ok |-> TRUE,
          value |-> [data |-> response.data, status |-> response.status,
                     message |-> MessageOf(response.data)]]
    ELSE [ok |-> FALSE,
          error |-> Err("Error",
                        IF Truthy(MessageOf(response.data))
                        THEN MessageOf(response.data).s ELSE GenericMessage)]

(* handleResponse, api.ts:8-26: [ok, value] on return, [ok, error] on throw *)
handleResponse(response) ==
    IF ~response.json
    THEN [ok |-> FALSE, error |-> InvalidJSONError]
    ELSE LET data == response.data IN
         IF ~ResponseOk(response.status)
         THEN IF Truthy(data) /\ ObjectKeysLength(data) > 0
              THEN [ok |-> FALSE, error |-> Err("Error", JSONStringify(data))]
              ELSE IF data.t = "null"
                   THEN [ok |-> FALSE, error |-> NullMessageError]
                   ELSE [ok |-> FALSE,
                         error |-> Err("Error",
                                       IF Truthy(MessageOf(data))
                                       THEN MessageOf(data).s
                                       ELSE GenericMessage)]
         ELSE IF data.t = "null"
              THEN [ok |-> FALSE, error |-> NullMessageError]
              ELSE [ok |-> TRUE,
                    value |-> [data |-> data, status |-> response.status,
                               message |-> MessageOf(data)]]

----------------------------------------------------------------------------
(* Plain header objects are ordered lists of <<name, value>>; a Headers     *)
(* instance maps lower-cased names to values.                               *)
NoHeaders == << >>
JsonType == "application/json"

(* The caller-supplied `headers` of RequestOptions that are drawn *)
CallerHeaders ==
    { NoHeaders,
      << <<"X-Request-Id", "r1">> >>,
      << <<"Authorization", "Basic abc">> >>,
      << <<"Content-Type", "text/plain">> >>,
      << <<"content-type", "text/plain">> >> }

(* The byte-lowercased header name, as the Headers class stores it *)
Lower(name) ==
    CASE name = "Content-Type" -> "content-type"
      [] name = "Authorization" -> "authorization"
      [] name = "X-Request-Id" -> "x-request-id"
      [] OTHER -> name

(* obj[k] = v on a plain object: an existing key keeps its place *)
ObjSet(obj, k, v) ==
    IF \E i \in 1..Len(obj) : obj[i][1] = k
    THEN [i \in 1..Len(obj) |-> IF obj[i][1] = k THEN <<k, v>> ELSE obj[i]]
    ELSE Append(obj, <<k, v>>)

(* { ...obj, ...src } *)
RECURSIVE ObjSpread(_, _)
ObjSpread(obj, src) ==
    IF src = << >> THEN obj
    ELSE ObjSpread(ObjSet(obj, Head(src)[1], Head(src)[2]), Tail(src))

(* Headers.prototype.append: a repeated name joins the values with ", " *)
HeadersAppend(h, name, value) ==
    LET n == Lower(name) IN
    IF n \in DOMAIN h
    THEN [h EXCEPT ![n] = @ \o ", " \o value]
    ELSE (n :> value) @@ h

(* new Headers(obj) *)
RECURSIVE NewHeaders(_)
NewHeaders(obj) ==
    IF obj = << >> THEN << >>
    ELSE LET last == obj[Len(obj)] IN
         HeadersAppend(NewHeaders(SubSeq(obj, 1, Len(obj) - 1)), last[1], last[2])

(* Headers.prototype.delete *)
HeadersDelete(h, name) == [n \in DOMAIN h \ {Lower(name)} |-> h[n]]

(* Headers.prototype.has / get *)
HeadersHas(h, name) == Lower(name) \in DOMAIN h
HeadersGet(h, name) == h[Lower(name)]

(* An entry that sends the token without its scheme *)
AuthorizationEntryRaw(token) ==
    IF token # NoToken THEN << <<"Authorization", token>> >> ELSE << >>

(* `...(token && { Authorization: `Bearer ${token}` })`, api.ts:58 *)
AuthorizationEntry(token) ==
    IF token # NoToken THEN << <<"Authorization", "Bearer " \o token>> >> ELSE << >>

(* The same headers without the FormData branch of api.ts:63-65 *)
BuildHeadersKeepType(token, callerHeaders, body) ==
    NewHeaders(ObjSpread(ObjSpread(<< <<"Content-Type", JsonType>> >>,
                                   AuthorizationEntry(token)),
                         callerHeaders))

(* The headers request() builds, api.ts:55-65 *)
BuildHeaders(token, callerHeaders, body) ==
    LET merged == ObjSpread(ObjSpread(<< <<"Content-Type", JsonType>> >>,
                                      AuthorizationEntry(token)),
                            callerHeaders)
        headers == NewHeaders(merged)
    IN  IF body = FormData THEN HeadersDelete(headers, "Content-Type") ELSE headers

----------------------------------------------------------------------------
(* The RequestOptions a caller may pass: absent fields are not in the record *)
Given(name, vals) == {[x \in {} |-> 0]} \cup {name :> v : v \in vals}
OverrideRetries == 0..MaxRetriesOpt

(* Every caller header set, with a retries override *)
HeaderOptions ==
    { ("headers" :> h) @@ ("retries" :> r) : h \in CallerHeaders, r \in OverrideRetries }
(* Every timeout and retries choice, the defaults included, with no headers *)
RetryOptions ==
    { t @@ r : t \in Given("timeout", {5000}), r \in Given("retries", OverrideRetries) }

(* The payloads handed to api.post and api.put *)
Payloads == {FormData, EmptyObj, Obj(<<"email">>, <<Str("a@b.com")>>)}
Verbs == {"get", "post", "put", "delete"}
VerbCalls ==
    {[verb |-> v, data |-> d, options |-> o] :
        v \in {"post", "put"}, d \in Payloads, o \in HeaderOptions}
    \cup {[verb |-> v, data |-> Undefined, options |-> o] :
        v \in {"get", "delete"}, o \in HeaderOptions \cup RetryOptions}

(* `...fetchOptions.headers`: nothing is spread when no headers were given *)
HeadersOf(options) ==
    IF "headers" \in DOMAIN options THEN options.headers ELSE NoHeaders

(* api.get / api.post / api.put / api.delete, api.ts:103-114: the method and *)
(* the body each verb hands to request()                                     *)
VerbMethod(verb) ==
    CASE verb = "get" -> "GET"
      [] verb = "post" -> "POST"
      [] verb = "put" -> "PUT"
      [] verb = "delete" -> "DELETE"

VerbBody(verb, data) ==
    CASE verb = "post" -> IF data = FormData THEN data ELSE Text(JSONStringify(data))
      [] verb = "put" -> Text(JSONStringify(data))
      [] OTHER -> Undefined

(* A destructuring that drops the per-request timeout *)
TimeoutOfDefaultOnly(options) == REQUEST_TIMEOUT

(* Destructuring defaults of api.ts:54 *)
TimeoutOf(options) ==
    IF "timeout" \in DOMAIN options THEN options.timeout ELSE REQUEST_TIMEOUT
RetriesOf(options) ==
    IF "retries" \in DOMAIN options THEN options.retries ELSE MAX_RETRIES

(* A backoff that does not grow with the attempt number *)
BackoffDelayFlat(a) == RETRY_DELAY

(* The backoff before the retry that follows attempt a, api.ts:96 *)
BackoffDelay(a) == RETRY_DELAY * (a + 1)

(* `error instanceof TypeError && error.message === 'Failed to fetch'` *)
IsFailedToFetch(error) == error.name = "TypeError" /\ error.message = "Failed to fetch"

(* Whether the catch block gives up after attempt a, api.ts:86-93 *)
GivesUp(error, a, r) == IsFailedToFetch(error) \/ a = r

(* What the catch block throws when it gives up *)
Thrown(error) ==
    IF IsFailedToFetch(error) THEN Err("Error", NetworkErrorMessage) ELSE error

----------------------------------------------------------------------------
(* The Session Controller: useAuth.ts over auth.ts                          *)

(* The hook instances: the Navbar and the ProfileMenu of one tab, and an   *)
(* instance in a second tab                                                 *)
Controllers == {"navbar", "menu", "tab2"}
TabOf(c) == IF c = "tab2" THEN "second" ELSE "first"

NoUser == "null"
UserOf(token) == IF token = "T1" THEN "U1" ELSE "U2"
NoMessage == "null"
NoTokenMessage == "No token received"
ValidationMessage == "{\"email\":[\"This field is required.\"]}"

(* What the login, register and refresh endpoints may answer through the   *)
(* pipeline: a token (with its user), a 2xx answer without token, or a     *)
(* failure the pipeline throws                                              *)
AuthAnswers ==
    {[ok |-> TRUE, token |-> t, message |-> NoMessage] : t \in Tokens}
    \cup {[ok |-> TRUE, token |-> NoToken, message |-> NoMessage],
          [ok |-> FALSE, token |-> NoToken, message |-> ValidationMessage]}

(* useAuth.ts:17-22 *)
InitialState == [user |-> NoUser, loading |-> TRUE, error |-> NoMessage,
                 isAuthenticated |-> FALSE]
Idle == [pc |-> "idle", user |-> NoUser]

SessionStart ==
    /\ mounted = [c \in Controllers |-> FALSE]
    /\ state = [c \in Controllers |-> InitialState]
    /\ ops = [c \in Controllers |-> [login |-> Idle, signup |-> Idle, refresh |-> Idle]]
    /\ checks = [c \in Controllers |-> EmptyBag]
    /\ events = [c \in Controllers |-> 0]
    /\ nav = [c \in Controllers |-> "none"]
    /\ settled = [c \in Controllers |-> [op |-> "none", outcome |-> "none"]]
    /\ staleWrite = [c \in Controllers |-> FALSE]

Init ==
    /\ cred \in Credentials
    /\ SessionStart
    /\ rpc = "idle"
    /\ call = [verb |-> "none"]
    /\ fetchInit = [method |-> "none"]
    /\ retries = 0
    /\ timeout = 0
    /\ attempt = 0
    /\ timers = << >>
    /\ sent = << >>
    /\ log = << >>
    /\ delays = << >>
    /\ lastError = NoError
    /\ received = [status |-> 0, json |-> FALSE, data |-> Undefined]
    /\ result = [kind |-> "none"]

(* setState(prev => ({ ...prev, loading: true, error: null })) *)
Begin(st) == [st EXCEPT !.loading = TRUE, !.error = NoMessage]

(* useAuth.ts:35-40 and 149-154, had the write kept the user *)
AnonymousKeepsUser(st) == [st EXCEPT !.isAuthenticated = FALSE, !.loading = FALSE]

(* useAuth.ts:35-40 and 149-154 *)
Anonymous(st) == [st EXCEPT !.user = NoUser, !.isAuthenticated = FALSE, !.loading = FALSE]

(* useAuth.ts:48-53, had isAuthenticated been taken from the user of the   *)
(* previous state                                                           *)
CheckedFromPrev(st, currentUser) ==
    [st EXCEPT !.user = currentUser, !.isAuthenticated = (st.user # NoUser),
               !.loading = FALSE]

(* useAuth.ts:48-53: `!!currentUser` *)
Checked(st, currentUser) ==
    [st EXCEPT !.user = currentUser, !.isAuthenticated = (currentUser # NoUser),
               !.loading = FALSE]

(* useAuth.ts:105-110 and 128-133, had the write left isAuthenticated as  *)
(* checkAuth set it                                                         *)
LoggedInKeepFlag(st, user) == [st EXCEPT !.user = user, !.loading = FALSE]

(* useAuth.ts:105-110 and 128-133, had login written its user only into a *)
(* state that checkAuth left Authenticated                                  *)
LoggedInIfChecked(st, user) ==
    IF st.isAuthenticated THEN [st EXCEPT !.user = user, !.loading = FALSE] ELSE st

(* useAuth.ts:105-110 and 128-133 *)
LoggedIn(st, user) == [st EXCEPT !.user = user, !.isAuthenticated = TRUE, !.loading = FALSE]

(* useAuth.ts:114-118 and 136-140, had the catch block left loading as it *)
(* was                                                                      *)
FailedStillLoading(st, message) == [st EXCEPT !.error = message]

(* useAuth.ts:114-118 and 136-140 *)
Failed(st, message) == [st EXCEPT !.loading = FALSE, !.error = message]

(* What login and signup settle with after a failure, had the catch block *)
(* not rethrown                                                             *)
Swallowed(op) == [op |-> op, outcome |-> "resolved"]

(* useAuth.ts:119 and 141: `throw err`, the promise of login / signup      *)
(* rejects                                                                  *)
Rethrown(op) == [op |-> op, outcome |-> "rejected"]

(* authUtils.isAuthenticated(), auth.ts:61-70 *)
HasToken(token) == token # NoToken

(* The storage events a write by instance c queues: one for each mounted   *)
(* instance of another tab                                                  *)
Listeners(c) == {d \in Controllers : mounted[d] /\ TabOf(d) # TabOf(c)}
CanNotify(c) == \A d \in Listeners(c) : events[d] < MaxEvents
Notified(c) == [d \in Controllers |-> IF d \in Listeners(c) THEN events[d] + 1 ELSE events[d]]

(* checkAuth up to its first await, had it returned on a missing token    *)
(* without the write of useAuth.ts:35-40                                   *)
CheckAuthStateNoReset(st, token) == Begin(st)

(* checkAuth up to its first await, useAuth.ts:28-45, called with `token`  *)
(* in localStorage: the new state, and the call left awaiting the profile  *)
CheckAuthState(st, token) == IF HasToken(token) THEN Begin(st) ELSE Anonymous(Begin(st))
(* The calls left awaiting, had checkAuth not been called *)
CheckAuthCallsNone(cs, token, owner) == cs

CheckAuthCalls(cs, token, owner) ==
    IF HasToken(token)
    THEN cs (+) SetToBag({[owner |-> owner, token |-> token, cleared |-> FALSE]})
    ELSE cs
RoomForCheck(c) == BagCardinality(checks[c]) < MaxChecks

(* checkAuth() called with nobody awaiting it: on mount, on a storage      *)
(* event, or by a consumer of the hook                                     *)
DetachedCheck(c) ==
    /\ HasToken(cred) => RoomForCheck(c)
    /\ state' = [state EXCEPT ![c] = CheckAuthState(@, cred)]
    /\ checks' = [checks EXCEPT ![c] = CheckAuthCalls(@, cred, "none")]
    /\ staleWrite' = [staleWrite EXCEPT ![c] = FALSE]

(* useAuth.ts:67-70 and 73-82: the effects run, checkAuth is called *)
Mount(c) ==
    /\ ~mounted[c]
    /\ mounted' = [mounted EXCEPT ![c] = TRUE]
    /\ DetachedCheck(c)
    /\ UNCHANGED <<cred, ops, events, nav, settled, pvars>>

(* handleStorageChange, useAuth.ts:74-78, for an event with key 'token' *)
handleStorageChange(c) ==
    /\ mounted[c]
    /\ events[c] > 0
    /\ events' = [events EXCEPT ![c] = @ - 1]
    /\ DetachedCheck(c)
    /\ UNCHANGED <<cred, mounted, ops, nav, settled, pvars>>

(* A consumer calls the checkAuth the hook returns, useAuth.ts:181 *)
checkAuth(c) ==
    /\ mounted[c]
    /\ DetachedCheck(c)
    /\ UNCHANGED <<cred, mounted, ops, events, nav, settled, pvars>>

(* The bag cs without one copy of chk *)
Without(cs, chk) == cs (-) SetToBag({chk})

(* The pending calls once a logout() has cleared the Credential *)
Cleared(cs) ==
    LET mark(chk) == [chk EXCEPT !.cleared = TRUE]
        marked == {mark(chk) : chk \in BagToSet(cs)}
    IN  [m \in marked |->
            CopiesIn(m, cs) + CopiesIn([m EXCEPT !.cleared = FALSE], cs)]

(* getCurrentUser(), auth.ts:72-83: the profile, or null when the request  *)
(* failed                                                                   *)
getCurrentUser(token, fetched) == IF fetched THEN UserOf(token) ELSE NoUser

(* The Credential after checkAuth, had a failed profile fetch removed it   *)
DroppedOnFailure(token, currentUser) == IF currentUser = NoUser THEN NoToken ELSE token

(* The Credential after checkAuth wrote the fetched profile: neither       *)
(* useAuth.ts:45-63 nor getCurrentUser, auth.ts:72-83, calls setItem or    *)
(* removeItem                                                               *)
KeptCredential(token, currentUser) == token

(* One checkAuth run to completion with nothing in between, useAuth.ts:    *)
(* 28-53: `token` is in localStorage and the profile request succeeds or   *)
(* fails                                                                    *)
RunCheckAuth(st, token, fetched) ==
    IF HasToken(token)
    THEN Checked(CheckAuthState(st, token), getCurrentUser(token, fetched))
    ELSE CheckAuthState(st, token)

(* The profile request of the pending checkAuth chk settles; checkAuth    *)
(* writes its result, useAuth.ts:45-53, and whoever awaited it goes on:    *)
(* login and signup at useAuth.ts:105-111 / 128-134, refreshToken at :90   *)
CheckSettles(c, chk, fetched) ==
    /\ BagIn(chk, checks[c])
    /\ LET st == Checked(state[c], getCurrentUser(chk.token, fetched))
       IN  /\ checks' = [checks EXCEPT ![c] = Without(@, chk)]
           /\ IF chk.owner \in {"login", "signup"}
              THEN /\ state' = [state EXCEPT ![c] = LoggedIn(st, ops[c][chk.owner].user)]
                   /\ ops' = [ops EXCEPT ![c][chk.owner] = Idle]
                   /\ nav' = [nav EXCEPT ![c] = "profile"]
                   /\ settled' = [settled EXCEPT ![c] = [op |-> chk.owner, outcome |-> "resolved"]]
                   /\ staleWrite' = [staleWrite EXCEPT ![c] = FALSE]
              ELSE /\ state' = [state EXCEPT ![c] = st]
                   /\ staleWrite' = [staleWrite EXCEPT ![c] = chk.cleared]
                   /\ IF chk.owner = "refresh"
                      THEN /\ ops' = [ops EXCEPT ![c].refresh = Idle]
                           /\ settled' = [settled EXCEPT ![c] = [op |-> "refresh", outcome |-> "true"]]
                      ELSE UNCHANGED <<ops, settled>>
                   /\ UNCHANGED nav
           /\ cred' = KeptCredential(cred, st.user)
    /\ UNCHANGED <<mounted, events, pvars>>

(* login / signup up to the await of the pipeline call, useAuth.ts:99-102  *)
(* and 123-126                                                              *)
Start(c, op) ==
    /\ mounted[c]
    /\ ops[c][op].pc = "idle"
    /\ ops' = [ops EXCEPT ![c][op].pc = "call"]
    /\ state' = [state EXCEPT ![c] = Begin(@)]
    /\ staleWrite' = [staleWrite EXCEPT ![c] = FALSE]
    /\ UNCHANGED <<cred, mounted, checks, events, nav, settled, pvars>>

login(c) == Start(c, "login")
signup(c) == Start(c, "signup")

(* Whether the answer makes the operation store a token, had auth.ts not  *)
(* tested `response.data.token`                                            *)
GotTokenUnchecked(answer) == answer.ok

(* `if (response.data.token)` after a call that did not throw, auth.ts:7,  *)
(* 26 and 50                                                                *)
GotToken(answer) == answer.ok /\ answer.token # NoToken

(* The token in localStorage when the checkAuth of login / signup reads   *)
(* it, had checkAuth been called before the token was stored               *)
NotYetStored(token, answer) == token

(* The token in localStorage when the checkAuth of login / signup reads   *)
(* it: auth.ts:8 / 27 has stored the token of the answer before            *)
(* authUtils.login returns to useAuth.ts:102-104                           *)
StoredBy(token, answer) == answer.token

(* The login or register call settles: auth.ts:4-35 stores the token, then *)
(* useAuth.ts:104 / 127 calls checkAuth; on failure useAuth.ts:112-120 /   *)
(* 135-142 set the error and rethrow                                        *)
Settles(c, op, answer) ==
    /\ ops[c][op].pc = "call"
    /\ IF GotToken(answer)
       THEN /\ RoomForCheck(c)
            /\ CanNotify(c) \/ cred = answer.token
            /\ cred' = answer.token
            /\ events' = IF cred = answer.token THEN events ELSE Notified(c)
            /\ ops' = [ops EXCEPT ![c][op] = [pc |-> "check", user |-> UserOf(answer.token)]]
            /\ state' = [state EXCEPT ![c] = CheckAuthState(@, StoredBy(cred, answer))]
            /\ checks' = [checks EXCEPT ![c] = CheckAuthCalls(@, StoredBy(cred, answer), op)]
            /\ staleWrite' = [staleWrite EXCEPT ![c] = FALSE]
            /\ UNCHANGED <<nav, settled>>
       ELSE /\ state' = [state EXCEPT ![c] =
                            Failed(@, IF answer.ok THEN NoTokenMessage ELSE answer.message)]
            /\ ops' = [ops EXCEPT ![c][op] = Idle]
            /\ settled' = [settled EXCEPT ![c] = Rethrown(op)]
            /\ staleWrite' = [staleWrite EXCEPT ![c] = FALSE]
            /\ UNCHANGED <<cred, events, checks, nav>>
    /\ UNCHANGED <<mounted, pvars>>

loginSettles(c, answer) == Settles(c, "login", answer)
signupSettles(c, answer) == Settles(c, "signup", answer)

(* logout, useAuth.ts:145-155 over auth.ts:37-45 and api.ts:124-127: no    *)
(* request is made, the awaited promises are already resolved, so the      *)
(* handler runs to its end before any other task                            *)
logout(c) ==
    /\ mounted[c]
    /\ CanNotify(c) \/ cred = NoToken
    /\ cred' = NoToken
    /\ events' = IF cred = NoToken THEN events ELSE Notified(c)
    /\ state' = [state EXCEPT ![c] = Anonymous(Begin(@))]
    /\ nav' = [nav EXCEPT ![c] = "home"]
    /\ settled' = [settled EXCEPT ![c] = [op |-> "logout", outcome |-> "resolved"]]
    /\ staleWrite' = [staleWrite EXCEPT ![c] = FALSE]
    /\ checks' = [d \in Controllers |-> Cleared(checks[d])]
    /\ UNCHANGED <<mounted, ops, pvars>>

(* refreshToken up to the await of the refresh call, useAuth.ts:84-86 *)
refreshToken(c) ==
    /\ mounted[c]
    /\ ops[c].refresh.pc = "idle"
    /\ ops' = [ops EXCEPT ![c].refresh.pc = "call"]
    /\ UNCHANGED <<cred, mounted, state, checks, events, nav, settled, staleWrite, pvars>>

(* The refresh call settles: auth.ts:47-59 and useAuth.ts:87-96 *)
refreshSettles(c, answer) ==
    /\ ops[c].refresh.pc = "call"
    /\ IF GotToken(answer)
       THEN /\ RoomForCheck(c)
            /\ CanNotify(c) \/ cred = answer.token
            /\ cred' = answer.token
            /\ events' = IF cred = answer.token THEN events ELSE Notified(c)
            /\ ops' = [ops EXCEPT ![c].refresh.pc = "check"]
            /\ state' = [state EXCEPT ![c] = CheckAuthState(@, answer.token)]
            /\ checks' = [checks EXCEPT ![c] = CheckAuthCalls(@, answer.token, "refresh")]
            /\ staleWrite' = [staleWrite EXCEPT ![c] = FALSE]
            /\ UNCHANGED settled
       ELSE /\ ops' = [ops EXCEPT ![c].refresh = Idle]
            /\ settled' = [settled EXCEPT ![c] = [op |-> "refresh", outcome |-> "false"]]
            /\ UNCHANGED <<cred, events, state, checks, staleWrite>>
    /\ UNCHANGED <<mounted, nav, pvars>>

(* A tab without a modelled instance writes or removes the Credential: a   *)
(* storage event is queued for every mounted instance                       *)
OtherTabWrites(t) ==
    /\ t # cred
    /\ \A d \in Controllers : mounted[d] => events[d] < MaxEvents
    /\ cred' = t
    /\ events' = [d \in Controllers |-> IF mounted[d] THEN events[d] + 1 ELSE events[d]]
    /\ UNCHANGED <<mounted, state, ops, checks, nav, settled, staleWrite, pvars>>

(* requireAuth, had the redirect not been followed by `return` *)
GuardFallsThrough(authenticated) == "called"

(* The guard of requireAuth, useAuth.ts:167-171 and auth.ts:86-90: the     *)
(* callback is called, or the login view is requested and the function     *)
(* returns                                                                  *)
Guard(authenticated) == IF authenticated THEN "called" ELSE "redirected"

(* What a guard with outcome `outcome` leaves as the requested route *)
GuardRoute(route, outcome) == IF outcome = "redirected" THEN "login" ELSE route

(* requireAuth(callback) of the hook, useAuth.ts:166-172: it reads the     *)
(* isAuthenticated of the state, runs to its end and awaits nothing        *)
requireAuth(c) ==
    /\ mounted[c]
    /\ LET outcome == Guard(state[c].isAuthenticated)
       IN  /\ settled' = [settled EXCEPT ![c] = [op |-> "requireAuth", outcome |-> outcome]]
           /\ nav' = [nav EXCEPT ![c] = GuardRoute(@, outcome)]
    /\ UNCHANGED <<cred, mounted, state, ops, checks, events, staleWrite, pvars>>

(* requireAuth(callback) of auth.ts:85-91: it reads the token *)
authRequireAuth(c) ==
    /\ mounted[c]
    /\ LET outcome == Guard(HasToken(cred))
       IN  /\ settled' = [settled EXCEPT ![c] = [op |-> "auth.requireAuth", outcome |-> outcome]]
           /\ nav' = [nav EXCEPT ![c] = GuardRoute(@, outcome)]
    /\ UNCHANGED <<cred, mounted, state, ops, checks, events, staleWrite, pvars>>

(* The instances that run in Spec *)
SpecControllers == {"navbar"}

Next ==
    \/ \E c \in SpecControllers :
          \/ Mount(c)
          \/ handleStorageChange(c)
          \/ checkAuth(c)
          \/ \E chk \in BagToSet(checks[c]), fetched \in BOOLEAN :
                CheckSettles(c, chk, fetched)
          \/ login(c)
          \/ signup(c)
          \/ \E answer \in AuthAnswers : loginSettles(c, answer)
          \/ \E answer \in AuthAnswers : signupSettles(c, answer)
          \/ logout(c)
          \/ refreshToken(c)
          \/ \E answer \in AuthAnswers : refreshSettles(c, answer)
    \/ \E t \in Credentials : OtherTabWrites(t)

(* The consumers of the hook in one tab: the Navbar and the ProfileMenu    *)
(* each call useAuth(), part_002:8-10 and part_001:9-13                    *)
TabControllers == {"navbar", "menu"}

TabNext ==
    \E c \in TabControllers :
        \/ Mount(c)
        \/ \E chk \in BagToSet(checks[c]), fetched \in BOOLEAN :
              CheckSettles(c, chk, fetched)
        \/ login(c)
        \/ \E answer \in AuthAnswers : loginSettles(c, answer)
        \/ logout(c)

(* A component that guards its actions with requireAuth *)
GuardNext ==
    \/ \E c \in SpecControllers :
          \/ Mount(c)
          \/ \E chk \in BagToSet(checks[c]), fetched \in BOOLEAN :
                CheckSettles(c, chk, fetched)
          \/ handleStorageChange(c)
          \/ logout(c)
          \/ requireAuth(c)
          \/ authRequireAuth(c)
    \/ \E t \in Credentials : OtherTabWrites(t)

NoResult == [kind |-> "none"]
NoResponse == [status |-> 0, json |-> FALSE, data |-> Undefined]
Armed(ms) == [st |-> "armed", ms |-> ms]

PipelineInit ==
    /\ cred \in Credentials
    /\ SessionStart
    /\ rpc = "idle"
    /\ call = [verb |-> "none"]
    /\ fetchInit = [method |-> "none"]
    /\ retries = 0
    /\ timeout = 0
    /\ attempt = 0
    /\ timers = << >>
    /\ sent = << >>
    /\ log = << >>
    /\ delays = << >>
    /\ lastError = NoError
    /\ received = NoResponse
    /\ result = NoResult

(* api.ts:82-97, the catch block of attempt `attempt` *)
Catch(error) ==
    /\ lastError' = error
    /\ log' = Append(log, "failed")
    /\ IF GivesUp(error, attempt, retries)
       THEN /\ rpc' = "thrown"
            /\ result' = [kind |-> "throw", error |-> Thrown(error)]
            /\ delays' = delays
       ELSE /\ rpc' = "delay"
            /\ delays' = Append(delays, BackoffDelay(attempt))
            /\ result' = result

(* A verb of `api` is called: request() runs up to its first `await fetch`, *)
(* api.ts:54-78                                                             *)
Request(c) ==
    /\ rpc = "idle"
    /\ LET body == VerbBody(c.verb, c.data)
           init == [method |-> VerbMethod(c.verb),
                    body |-> body,
                    headers |-> BuildHeaders(cred, HeadersOf(c.options), body)]
       IN  /\ call' = [verb |-> c.verb, data |-> c.data, options |-> c.options,
                       token |-> cred]
           /\ fetchInit' = init
           /\ retries' = RetriesOf(c.options)
           /\ timeout' = TimeoutOf(c.options)
           /\ attempt' = 0
           /\ timers' = <<Armed(TimeoutOf(c.options))>>
           /\ sent' = <<[init |-> init, signal |-> 0]>>
           /\ rpc' = "fetch"
    /\ UNCHANGED svars
    /\ UNCHANGED <<cred, log, delays, lastError, received, result>>

(* The fetch of the current attempt resolves with a response: the timer is *)
(* cleared and handleResponse decides, api.ts:80-81                         *)
FetchResponds(response) ==
    /\ rpc = "fetch"
    /\ timers' = [timers EXCEPT ![attempt + 1].st = "cleared"]
    /\ received' = response
    /\ LET r == handleResponse(response) IN
       IF r.ok
       THEN /\ rpc' = "returned"
            /\ result' = [kind |-> "return", value |-> r.value]
            /\ log' = Append(log, "ok")
            /\ UNCHANGED <<delays, lastError>>
       ELSE Catch(r.error)
    /\ UNCHANGED svars
    /\ UNCHANGED <<cred, call, fetchInit, retries, timeout, attempt, sent>>

(* The fetch of the current attempt rejects: the transport reached no server *)
FetchFails(error) ==
    /\ rpc = "fetch"
    /\ Catch(error)
    /\ received' = NoResponse
    /\ UNCHANGED svars
    /\ UNCHANGED <<cred, call, fetchInit, retries, timeout, attempt, timers, sent>>

(* Whether timer a aborts the fetch pending on `signal`, had the attempts  *)
(* shared one AbortController                                               *)
AbortsShared(a, signal) == TRUE

(* Whether timer a aborts the fetch pending on `signal`: the timer aborts  *)
(* the controller created by its own attempt, api.ts:70-72                  *)
Aborts(a, signal) == signal = a - 1

(* The timer armed by attempt a-1 fires and aborts that attempt's controller, *)
(* api.ts:72; a fetch still pending on that signal rejects with AbortError    *)
TimerFires(a) ==
    /\ a \in 1..Len(timers)
    /\ timers[a].st = "armed"
    /\ timers' = [timers EXCEPT ![a].st = "fired"]
    /\ IF rpc = "fetch" /\ Aborts(a, sent[Len(sent)].signal)
       THEN Catch(AbortError) /\ received' = NoResponse
       ELSE UNCHANGED <<rpc, log, delays, lastError, received, result>>
    /\ UNCHANGED svars
    /\ UNCHANGED <<cred, call, fetchInit, retries, timeout, attempt, sent>>

(* The init of a retry, had the headers been built again from the token   *)
(* stored at the time of the retry                                          *)
RetryInitReread(init, c, token) ==
    [init EXCEPT !.headers = BuildHeaders(token, HeadersOf(c.options), init.body)]

(* The init of a retry, api.ts:73-77: `fetchOptions` and the `headers`     *)
(* built before the loop, api.ts:55-65                                      *)
RetryInit(init, c, token) == init

(* The backoff delay ends: the loop increments attempt and starts the next *)
(* attempt, api.ts:69-78                                                    *)
DelayElapses ==
    /\ rpc = "delay"
    /\ attempt + 1 <= retries
    /\ attempt' = attempt + 1
    /\ timers' = Append(timers, Armed(timeout))
    /\ sent' = Append(sent, [init |-> RetryInit(fetchInit, call, cred),
                             signal |-> attempt + 1])
    /\ rpc' = "fetch"
    /\ UNCHANGED svars
    /\ UNCHANGED <<cred, call, fetchInit, retries, timeout, log, delays, lastError,
                   received, result>>

(* Another operation or another tab writes or removes the Credential while *)
(* the call is under way                                                    *)
CredentialChanges(t) ==
    /\ rpc \in {"fetch", "delay"}
    /\ t # cred
    /\ cred' = t
    /\ UNCHANGED <<pvars, svars>>

PipelineNext ==
    \/ \E c \in VerbCalls : Request(c)
    \/ \E response \in Responses : FetchResponds(response)
    \/ \E error \in {FailedToFetch, OtherFetchFailure} : FetchFails(error)
    \/ \E a \in 1..Len(timers) : TimerFires(a)
    \/ DelayElapses
    \/ \E t \in Credentials : CredentialChanges(t)

vars == <<cred, pvars, svars>>

PipelineSpec == PipelineInit /\ [][PipelineNext]_vars

Spec == Init /\ [][Next]_vars

TabSpec == Init /\ [][TabNext]_vars

GuardSpec == Init /\ [][GuardNext]_vars

----------------------------------------------------------------------------
(* Claims about the Session Controller, checked under Spec                  *)

(* C1: in every state, isAuthenticated is true if and only if user is      *)
(* present and a Credential is stored.                                     *)
C1_AuthIffUserAndCredential ==
    \A c \in SpecControllers :
        state[c].isAuthenticated <=> (state[c].user # NoUser /\ cred # NoToken)

(* C2: the state is never Authenticated by the write of a checkAuth that   *)
(* was awaiting its profile when a logout() cleared the Credential.        *)
C2_StaleCheckIgnored ==
    \A c \in SpecControllers :
        ~(staleWrite[c] /\ state[c].isAuthenticated /\ state[c].user # NoUser)

(* The steps of an operation op of instance c, read off its position *)
Calls(c, op) == ops[c][op].pc = "idle" /\ ops'[c][op].pc = "call"
GetsToken(c, op) == ops[c][op].pc = "call" /\ ops'[c][op].pc = "check"
Gives(c, op) == ops[c][op].pc = "call" /\ ops'[c][op].pc = "idle"
Completes(c, op) == ops[c][op].pc = "check" /\ ops'[c][op].pc = "idle"
Outcome(op, outcome) == [op |-> op, outcome |-> outcome]
IsAnonymous(st) == st.user = NoUser /\ ~st.isAuthenticated

(* C11: a login answered 200 with {token T, user U} stores T as the        *)
(* Credential when the answer arrives and does not touch the Credential    *)
(* again (it changes before login completes only by another operation or   *)
(* tab); when login completes the state is {isAuthenticated: true, user:   *)
(* U, loading: false}, navigation to the profile route is requested and    *)
(* login resolves.                                                         *)
C11_LoginSuccess ==
    [][ \A c \in SpecControllers :
          /\ GetsToken(c, "login") =>
                /\ cred' \in Tokens
                /\ ops'[c].login.user = UserOf(cred')
          /\ (ops[c].login.pc = "check" /\ cred' # cred) =>
                ops'[c].login = ops[c].login
          /\ Completes(c, "login") =>
                /\ state'[c].isAuthenticated
                /\ state'[c].user = ops[c].login.user
                /\ state'[c].user # NoUser
                /\ ~state'[c].loading
                /\ nav'[c] = "profile"
                /\ settled'[c] = Outcome("login", "resolved")
      ]_vars

C11_Witness ==
    /\ settled["navbar"] = Outcome("login", "resolved")
    /\ ops["navbar"].login = Idle
    /\ cred = "T1"
    /\ state["navbar"] = [user |-> "U1", loading |-> FALSE, error |-> NoMessage,
                          isAuthenticated |-> TRUE]
    /\ nav["navbar"] = "profile"

(* C12: a login answered 400 with a validation body rejects; called in    *)
(* the Anonymous state with no Credential stored, neither its call nor its *)
(* failure changes that: the state is still Anonymous (user absent,        *)
(* isAuthenticated false), no Credential is stored and no navigation is    *)
(* requested.                                                              *)
C12_LoginRejectedStaysAnonymous ==
    [][ \A c \in SpecControllers :
          (Calls(c, "login") \/ Gives(c, "login")) =>
              /\ Gives(c, "login") => settled'[c] = Outcome("login", "rejected")
              /\ IsAnonymous(state[c]) => IsAnonymous(state'[c])
              /\ cred' = cred
              /\ nav'[c] = nav[c]
      ]_vars

C12_Witness ==
    /\ settled["navbar"] = Outcome("login", "rejected")
    /\ state["navbar"] = [user |-> NoUser, loading |-> FALSE, error |-> ValidationMessage,
                          isAuthenticated |-> FALSE]
    /\ cred = NoToken
    /\ nav["navbar"] = "none"

(* C13: whenever login fails, in whatever state it was called, the        *)
(* failure is rethrown and the state after it is Anonymous-with-error:     *)
(* user absent, isAuthenticated false, loading false, error set.           *)
C13_LoginFailureToAnonymous ==
    [][ \A c \in SpecControllers :
          Gives(c, "login") =>
              /\ settled'[c] = Outcome("login", "rejected")
              /\ IsAnonymous(state'[c])
              /\ ~state'[c].loading
              /\ state'[c].error # NoMessage
      ]_vars

(* A storage event with key 'token' is handled by instance c *)
HandlesStorageEvent(c) == events'[c] < events[c]

(* C14: when a storage event with key 'token' is handled while no          *)
(* Credential is stored (another tab removed it), the handler runs         *)
(* checkAuth by itself: whatever the state was, Authenticated included, it *)
(* is Anonymous afterwards (user absent, isAuthenticated false, loading    *)
(* false), no request is made, and nothing of this tab's operations        *)
(* (login, signup, logout, refreshToken, navigation) takes part.           *)
C14_RemovalInOtherTabLogsOut ==
    [][ \A c \in SpecControllers :
          (HandlesStorageEvent(c) /\ cred = NoToken) =>
              /\ IsAnonymous(state'[c])
              /\ ~state'[c].loading
              /\ checks'[c] = checks[c]
              /\ ops'[c] = ops[c]
              /\ settled'[c] = settled[c]
              /\ nav'[c] = nav[c]
              /\ cred' = cred
      ]_vars

C14_Witness ==
    /\ mounted["navbar"]
    /\ settled["navbar"] = Outcome("login", "resolved")
    /\ nav["navbar"] = "profile"
    /\ ops["navbar"] = [login |-> Idle, signup |-> Idle, refresh |-> Idle]
    /\ checks["navbar"] = EmptyBag
    /\ cred = NoToken
    /\ events["navbar"] = 0
    /\ state["navbar"] = [user |-> NoUser, loading |-> FALSE, error |-> NoMessage,
                          isAuthenticated |-> FALSE]

(* Nothing is in flight in instance c: every storage event was handled,    *)
(* every checkAuth and every operation has completed                       *)
Quiet(c) ==
    /\ mounted[c]
    /\ events[c] = 0
    /\ checks[c] = EmptyBag
    /\ ops[c] = [login |-> Idle, signup |-> Idle, refresh |-> Idle]

(* C15: tabs converge on the state the Credential determines. In a tab     *)
(* whose UI made no call, once every storage event is handled and every    *)
(* checkAuth has completed, the state is Anonymous if no Credential is     *)
(* stored, and if it is Authenticated the user is the profile of the       *)
(* stored Credential, whatever checkAuth calls were in flight when the     *)
(* storage event arrived.                                                  *)
C15_QuietTabConverged ==
    \A c \in SpecControllers :
        (Quiet(c) /\ settled[c].op = "none") =>
            /\ cred = NoToken => (IsAnonymous(state[c]) /\ ~state[c].loading)
            /\ (cred # NoToken /\ state[c].isAuthenticated) => state[c].user = UserOf(cred)

(* C16: checkAuth is idempotent: from every state the controller reaches,  *)
(* for every Credential value and every stable backend answer (profile     *)
(* returned, or profile fetch failing), the state after two runs of        *)
(* checkAuth in a row equals the state after the first.                    *)
C16_CheckAuthIdempotent ==
    \A c \in SpecControllers : \A token \in Credentials : \A fetched \in BOOLEAN :
        LET once == RunCheckAuth(state[c], token, fetched)
        IN  RunCheckAuth(once, token, fetched) = once

(* A state a completed checkAuth left, with a message in `error` before    *)
(* the run, on which a second run changes nothing                          *)
C16_Witness ==
    /\ Quiet("navbar")
    /\ cred = "T1"
    /\ settled["navbar"] = Outcome("login", "rejected")
    /\ state["navbar"] = RunCheckAuth(Failed(InitialState, ValidationMessage), "T1", TRUE)
    /\ state["navbar"] = RunCheckAuth(state["navbar"], cred, TRUE)

(* A checkAuth of instance c that awaited its profile completes; its      *)
(* profile fetch failed when the user it writes is absent                  *)
CheckCompletes(c) == BagCardinality(checks'[c]) < BagCardinality(checks[c])
DetachedCheckCompletes(c) ==
    \E chk \in BagToSet(checks[c]) :
        chk.owner = "none" /\ checks'[c] = Without(checks[c], chk)
FetchFailed(c) == state'[c].user = NoUser

(* C17: when a Credential exists and the profile fetch fails, checkAuth    *)
(* completes with the state Anonymous (user absent, isAuthenticated false, *)
(* loading false) and an error message in the error field.                 *)
C17_FetchFailureSetsError ==
    [][ \A c \in SpecControllers :
          (DetachedCheckCompletes(c) /\ FetchFailed(c)) =>
              /\ IsAnonymous(state'[c])
              /\ ~state'[c].loading
              /\ state'[c].error # NoMessage
      ]_vars

(* C18: checkAuth never writes or removes the Credential: a step of        *)
(* checkAuth (its call on mount, for a storage event or by a consumer,     *)
(* and its completion after the profile fetch, failed or not, for whoever  *)
(* awaited it) leaves the stored Credential as it was.                     *)
C18_CheckAuthKeepsCredential ==
    [][ \A c \in SpecControllers :
          (\/ mounted'[c] # mounted[c]
           \/ HandlesStorageEvent(c)
           \/ checkAuth(c)
           \/ CheckCompletes(c)) => cred' = cred
      ]_vars

(* A checkAuth whose profile fetch failed has completed, and the           *)
(* Credential is still stored                                              *)
C18_Witness ==
    /\ Quiet("navbar")
    /\ settled["navbar"] = Outcome("none", "none")
    /\ cred = "T1"
    /\ state["navbar"] = [user |-> NoUser, loading |-> FALSE, error |-> NoMessage,
                          isAuthenticated |-> FALSE]

(* C19: when logout() completes, in whatever state it was called, the     *)
(* Credential is absent, the state is Anonymous (user absent,              *)
(* isAuthenticated false, loading false), navigation to the home view has  *)
(* been requested and logout resolves: the logout call of the pipeline     *)
(* makes no request and has no failing outcome.                            *)
C19_LogoutClears ==
    [][ \A c \in SpecControllers :
          (logout(c) \/ (settled'[c].op = "logout" /\ settled[c].op # "logout")) =>
              /\ cred' = NoToken
              /\ IsAnonymous(state'[c])
              /\ ~state'[c].loading
              /\ nav'[c] = "home"
              /\ settled'[c] = Outcome("logout", "resolved")
      ]_vars

(* logout() has completed while a login of user U1 awaited its checkAuth *)
C19_Witness ==
    /\ settled["navbar"] = Outcome("logout", "resolved")
    /\ nav["navbar"] = "home"
    /\ cred = NoToken
    /\ ops["navbar"].login = [pc |-> "check", user |-> "U1"]
    /\ state["navbar"] = [user |-> NoUser, loading |-> FALSE, error |-> NoMessage,
                          isAuthenticated |-> FALSE]

(* C20: when the refresh endpoint returns a token, refreshToken stores it  *)
(* as the Credential and calls checkAuth, which requests the profile with  *)
(* the new token; refreshToken returns true when that checkAuth has        *)
(* completed. When the refresh call fails or returns no token,             *)
(* refreshToken returns false and leaves the Credential and the state as   *)
(* they were.                                                              *)
C20_RefreshToken ==
    [][ \A c \in SpecControllers :
          /\ GetsToken(c, "refresh") =>
                LET chk == [owner |-> "refresh", token |-> cred', cleared |-> FALSE]
                IN  /\ cred' \in Tokens
                    /\ CopiesIn(chk, checks'[c]) = CopiesIn(chk, checks[c]) + 1
                    /\ settled'[c] = settled[c]
          /\ Completes(c, "refresh") =>
                /\ CheckCompletes(c)
                /\ settled'[c] = Outcome("refresh", "true")
          /\ Gives(c, "refresh") =>
                /\ settled'[c] = Outcome("refresh", "false")
                /\ cred' = cred
                /\ state'[c] = state[c]
      ]_vars

(* refreshToken has stored T2 and returned true after its checkAuth       *)
(* loaded the profile of T2                                                *)
C20_Witness ==
    /\ Quiet("navbar")
    /\ settled["navbar"] = Outcome("refresh", "true")
    /\ cred = "T2"
    /\ state["navbar"] = [user |-> "U2", loading |-> FALSE, error |-> NoMessage,
                          isAuthenticated |-> TRUE]

(* An operation of instance c is in flight: a checkAuth, login, signup or  *)
(* refreshToken awaits an answer; before the mount effect has run, the     *)
(* initial checkAuth is still to start                                     *)
InFlight(c) ==
    \/ ~mounted[c]
    \/ checks[c] # EmptyBag
    \/ \E op \in {"login", "signup", "refresh"} : ops[c][op].pc # "idle"

(* C22: in every state loading is true only if an operation of the         *)
(* controller is in flight (the initial checkAuth included, from the       *)
(* creation of the state on): whenever none is, loading is false.          *)
C22_LoadingOnlyInFlight ==
    \A c \in SpecControllers : state[c].loading => InFlight(c)

(* logout() was called while a login awaited its answer, the login then    *)
(* failed: nothing is in flight and loading is false                       *)
C22_Witness ==
    /\ Quiet("navbar")
    /\ settled["navbar"] = Outcome("login", "rejected")
    /\ nav["navbar"] = "home"
    /\ ~state["navbar"].loading
    /\ state["navbar"].error = NoTokenMessage

(* C24: the steps of one login are ordered. The checkAuth of login starts *)
(* with the token of the answer already stored: it requests the profile    *)
(* with that token. login writes the Authenticated state in the step in    *)
(* which that checkAuth completes, after it, and the profile route is      *)
(* requested in that step only: never before, never by a login that        *)
(* failed, which stores no Credential either.                              *)
C24_LoginOrdered ==
    [][ \A c \in SpecControllers :
          LET pending(cs) == {chk \in BagToSet(cs) : chk.owner = "login"}
              tokens(cs) == {chk.token : chk \in pending(cs)}
          IN  /\ GetsToken(c, "login") =>
                    /\ cred' \in Tokens
                    /\ pending(checks[c]) = {}
                    /\ tokens(checks'[c]) = {cred'}
                    /\ nav'[c] = nav[c]
              /\ (ops[c].login.pc = "check" /\ ~Completes(c, "login")) =>
                    /\ tokens(checks[c]) # {}
                    /\ tokens(checks'[c]) = tokens(checks[c])
                    /\ (nav'[c] = "profile" /\ nav[c] # "profile") => Completes(c, "signup")
              /\ Completes(c, "login") =>
                    /\ \E chk \in pending(checks[c]) : checks'[c] = Without(checks[c], chk)
                    /\ pending(checks'[c]) = {}
                    /\ state'[c].isAuthenticated
                    /\ nav'[c] = "profile"
              /\ (nav'[c] = "profile" /\ nav[c] # "profile") =>
                    Completes(c, "login") \/ Completes(c, "signup")
              /\ (Calls(c, "login") \/ Gives(c, "login")) =>
                    cred' = cred /\ nav'[c] = nav[c]
      ]_vars

(* The login has stored T1 and awaits the checkAuth that requested the     *)
(* profile with T1; the Authenticated state is not written and no route    *)
(* requested yet                                                           *)
C24_Witness ==
    /\ ops["navbar"].login = [pc |-> "check", user |-> "U1"]
    /\ cred = "T1"
    /\ BagIn([owner |-> "login", token |-> "T1", cleared |-> FALSE], checks["navbar"])
    /\ ~state["navbar"].isAuthenticated
    /\ state["navbar"].loading
    /\ nav["navbar"] = "none"

(* C29: when the login request succeeded with a token, the state login    *)
(* leaves does not depend on what its checkAuth fetched: it is the state   *)
(* login writes over the Anonymous state of a failed profile fetch,        *)
(* Authenticated with the user of the login response.                      *)
C29_LoginOverridesCheck ==
    [][ \A c \in SpecControllers :
          Completes(c, "login") =>
              LET failed == Checked(state[c], NoUser)
              IN  /\ IsAnonymous(failed)
                  /\ state'[c] = LoggedIn(failed, ops[c].login.user)
                  /\ state'[c].isAuthenticated
                  /\ state'[c].user = ops[c].login.user
                  /\ state'[c].user \in {UserOf(t) : t \in Tokens}
      ]_vars

(* A login answered with T2 has completed: Authenticated with U2 *)
C29_Witness ==
    /\ settled["navbar"] = Outcome("login", "resolved")
    /\ Quiet("navbar")
    /\ state["navbar"].isAuthenticated
    /\ state["navbar"].user = "U2"
    /\ ~state["navbar"].loading

(* C30: login, signup and refreshToken write the Credential only with a   *)
(* token of the answer. When the answer has none (a success status         *)
(* without token, or a failure), the operation fails and leaves the        *)
(* Credential as it was and the route as it was; login and signup then set *)
(* the error field ('No token received' for a success status without       *)
(* token) and reject, refreshToken returns false.                          *)
C30_NoTokenReceived ==
    [][ \A c \in SpecControllers : \A op \in {"login", "signup", "refresh"} :
          /\ (ops[c][op].pc = "call" /\ ops'[c][op].pc # "call") =>
                \/ Gives(c, op) /\ cred' = cred
                \/ GetsToken(c, op) /\ cred' \in Tokens
          /\ Gives(c, op) =>
                /\ nav'[c] = nav[c]
                /\ checks'[c] = checks[c]
                /\ IF op = "refresh"
                   THEN settled'[c] = Outcome(op, "false") /\ state'[c] = state[c]
                   ELSE /\ settled'[c] = Outcome(op, "rejected")
                        /\ state'[c].error \in {NoTokenMessage, ValidationMessage}
                        /\ ~state'[c].loading
      ]_vars

(* A signup answered with a success status and no token has failed: the    *)
(* error is 'No token received' and the Credential T1 is still stored      *)
C30_Witness ==
    /\ settled["navbar"] = Outcome("signup", "rejected")
    /\ state["navbar"].error = NoTokenMessage
    /\ cred = "T1"
    /\ nav["navbar"] = "none"
    /\ ops["navbar"].signup = Idle

----------------------------------------------------------------------------
(* Claims about the consumers of one tab, checked under TabSpec             *)

(* C23: the consumers of one tab see one session: once a consumer's        *)
(* logout() has completed and left no Credential, no other consumer of the *)
(* tab with nothing in flight (and no checkAuth that was pending at the    *)
(* logout) still shows Authenticated.                                      *)
C23_SingleSourceOfTruth ==
    \A c \in TabControllers : \A d \in TabControllers \ {c} :
        (/\ settled[d] = Outcome("logout", "resolved")
         /\ cred = NoToken
         /\ Quiet(c)
         /\ ~staleWrite[c]) => ~state[c].isAuthenticated

----------------------------------------------------------------------------
(* Claims about the guard, checked under GuardSpec                          *)

(* C21: requireAuth(callback) is a synchronous guard. Called while         *)
(* isAuthenticated is false (for the requireAuth of auth.ts: while no      *)
(* token is stored) it requests the login view and the callback is not     *)
(* called, in that step or in any later one; called while it is true the   *)
(* callback is called once, in that step, and no redirect is requested.    *)
(* The guard changes neither the state nor the Credential and leaves       *)
(* nothing in flight.                                                      *)
C21_RequireAuthGuard ==
    [][ \A c \in SpecControllers :
          /\ requireAuth(c) =>
                IF state[c].isAuthenticated
                THEN settled'[c] = Outcome("requireAuth", "called") /\ nav'[c] = nav[c]
                ELSE settled'[c] = Outcome("requireAuth", "redirected") /\ nav'[c] = "login"
          /\ authRequireAuth(c) =>
                IF cred # NoToken
                THEN settled'[c] = Outcome("auth.requireAuth", "called") /\ nav'[c] = nav[c]
                ELSE settled'[c] = Outcome("auth.requireAuth", "redirected") /\ nav'[c] = "login"
          /\ (settled'[c].outcome = "called" /\ settled'[c] # settled[c]) =>
                \/ settled'[c].op = "requireAuth" /\ state[c].isAuthenticated
                \/ settled'[c].op = "auth.requireAuth" /\ cred # NoToken
          /\ (requireAuth(c) \/ authRequireAuth(c)) =>
                /\ state'[c] = state[c]
                /\ cred' = cred
                /\ checks'[c] = checks[c]
                /\ ops'[c] = ops[c]
      ]_vars

(* The hook's guard has redirected a caller whose state was not            *)
(* Authenticated although a Credential is stored                           *)
C21_Witness ==
    /\ settled["navbar"] = Outcome("requireAuth", "redirected")
    /\ nav["navbar"] = "login"
    /\ ~state["navbar"].isAuthenticated
    /\ cred = "T1"
    /\ Quiet("navbar")

----------------------------------------------------------------------------
(* Claims about the Request Pipeline, checked under PipelineSpec            *)

(* The attempts made so far, and whether the latest finished one got a     *)
(* response of the given kind                                              *)
Attempts == Len(sent)
IsNetworkFailure(error) == error \in {FailedToFetch, OtherFetchFailure}
GotErrorPayload ==
    /\ received # NoResponse
    /\ ~ResponseOk(received.status)
    /\ received.data.t = "obj"
    /\ received.data.keys # << >>

(* C3: when the first N-1 attempts failed and the N-th succeeded, with      *)
(* N-1 < retries, request() returned the success Result after exactly N    *)
(* attempts and waited k*1000 ms after the k-th failed attempt.            *)
C3_RetryThenSuccess ==
    LET N == Len(log) IN
    (N >= 1 /\ log[N] = "ok" /\ N - 1 < retries) =>
        /\ \A k \in 1..(N - 1) : log[k] = "failed"
        /\ rpc = "returned"
        /\ result.kind = "return"
        /\ ResponseOk(result.value.status)
        /\ result.value.data = received.data
        /\ Attempts = N
        /\ Len(delays) = N - 1
        /\ \A k \in 1..(N - 1) : delays[k] = k * 1000

C3_Witness ==
    /\ rpc = "returned"
    /\ retries = 3
    /\ log = <<"failed", "failed", "ok">>
    /\ delays = <<1000, 2000>>

(* C4: when every attempt failed and request() has given up, it made        *)
(* exactly retries+1 attempts and threw the failure of the last attempt.   *)
C4_ExhaustsRetries ==
    rpc = "thrown" =>
        /\ Attempts = retries + 1
        /\ result.error = lastError

(* C5: an attempt answered with a 4xx status is not retried: request() has  *)
(* thrown and no backoff wait was started for it.                          *)
C5_NoRetryOn4xx ==
    (received.status >= 400 /\ received.status <= 499) =>
        /\ rpc = "thrown"
        /\ Len(delays) = Len(log) - 1

(* C6: a network-level failure is retried like other failures: request()   *)
(* gives up on it only when no attempt remains, and then throws the        *)
(* distinguishable network error.                                          *)
C6_NetworkFailureRetried ==
    (rpc = "thrown" /\ IsNetworkFailure(lastError)) =>
        /\ attempt = retries
        /\ Len(delays) = retries
        /\ result.error = Err("Error", NetworkErrorMessage)

(* C7: every attempt arms its own timer with the effective timeout (30000  *)
(* ms or the override) and fetches on its own signal; a timer that fires   *)
(* while its attempt awaits the response makes that attempt fail with an   *)
(* abort, retried while attempts remain; a response that arrives first     *)
(* clears the timer, and a cleared timer never fires.                      *)
C7_TimeoutPerAttempt ==
    [][ /\ Len(timers') = Len(sent')
        /\ \A a \in 1..Len(sent') :
              /\ sent'[a].signal = a - 1
              /\ timers'[a].ms = IF "timeout" \in DOMAIN call'.options
                                 THEN call'.options.timeout ELSE 30000
        /\ (rpc = "fetch" /\ timers[attempt + 1].st = "armed"
                          /\ timers'[attempt + 1].st = "fired") =>
              /\ lastError' = AbortError
              /\ log' = Append(log, "failed")
              /\ attempt < retries => (rpc' = "delay" /\ Len(delays') = Len(delays) + 1)
              /\ attempt = retries => (rpc' = "thrown" /\ result'.error = AbortError)
        /\ (rpc = "fetch" /\ Len(log') = Len(log) + 1 /\ received' # NoResponse) =>
              timers'[attempt + 1].st = "cleared"
        /\ \A a \in 1..Len(timers) :
              timers[a].st = "cleared" => timers'[a].st = "cleared"
      ]_vars

C7_Witness ==
    /\ Len(timers) = 2
    /\ timers[1] = [st |-> "fired", ms |-> 5000]
    /\ timers[2] = [st |-> "cleared", ms |-> 5000]
    /\ log = <<"failed", "ok">>
    /\ rpc = "returned"

(* The Authorization and content-type headers of the fetch calls made, and *)
(* the caller's own header of a given lower-cased name                     *)
CallerHeaderNames == {Lower(HeadersOf(call.options)[i][1]) : i \in 1..Len(HeadersOf(call.options))}
CallerNamed(name) ==
    {HeadersOf(call.options)[i] : i \in {j \in 1..Len(HeadersOf(call.options)) :
                                           Lower(HeadersOf(call.options)[j][1]) = name}}

C9_JsonUnlessFormData ==
    \A i \in 1..Len(sent) :
        LET h == sent[i].init.headers IN
        IF sent[i].init.body = FormData
        THEN ~HeadersHas(h, "Content-Type")
        ELSE HeadersHas(h, "Content-Type") /\ HeadersGet(h, "Content-Type") = JsonType

(* C9 amended: a FormData body goes out with no content-type header, even  *)
(* when the caller supplied one; every other request goes out with         *)
(* content-type application/json unless the caller's headers name a        *)
(* content-type: a caller's "Content-Type" replaces the JSON value, one    *)
(* spelled in another letter case is appended to it.                       *)
C9_JsonUnlessFormDataOrCaller ==
    \A i \in 1..Len(sent) :
        LET h == sent[i].init.headers
            own == CallerNamed("content-type")
        IN  IF sent[i].init.body = FormData
            THEN ~HeadersHas(h, "Content-Type")
            ELSE /\ HeadersHas(h, "Content-Type")
                 /\ own = {} => HeadersGet(h, "Content-Type") = JsonType
                 /\ \A e \in own :
                       HeadersGet(h, "Content-Type") =
                           IF e[1] = "Content-Type" THEN e[2]
                           ELSE JsonType \o ", " \o e[2]

C9_Witness ==
    /\ Len(sent) >= 1
    /\ sent[1].init.body = FormData
    /\ CallerNamed("content-type") # {}
    /\ ~HeadersHas(sent[1].init.headers, "Content-Type")

(* The own property k of an Error object, as a JSON value *)
FieldOf(error, k) == IF k \in DOMAIN error THEN Str(error[k]) ELSE Undefined

C25_VerbsSerializeUnlessForm ==
    \A i \in 1..Len(sent) :
        LET init == sent[i].init IN
        /\ init.method = VerbMethod(call.verb)
        /\ call.verb \in {"post", "put"} =>
              IF call.data = FormData
              THEN init.body = FormData /\ ~HeadersHas(init.headers, "Content-Type")
              ELSE init.body = Text(JSONStringify(call.data))
        /\ call.verb \in {"get", "delete"} => init.body = Undefined

(* A non-2xx response whose parsed body is not a non-empty object *)
GotErrorWithoutPayload ==
    /\ received # NoResponse
    /\ received.json
    /\ ~ResponseOk(received.status)
    /\ ~(received.data.t = "obj" /\ received.data.keys # << >>)
    /\ ~(received.data.t = "arr" /\ received.data.items # << >>)
    /\ ~(received.data.t = "str" /\ received.data.s # "")

(* C26: after a non-2xx response whose parsed body is an empty object,     *)
(* null or otherwise without fields, the attempt failed with an Error      *)
(* whose message is the body's message field if it has one and "An error   *)
(* occurred" otherwise.                                                    *)
C26_GenericMessage ==
    GotErrorWithoutPayload =>
        lastError = Err("Error", IF Truthy(MessageOf(received.data))
                                 THEN MessageOf(received.data).s
                                 ELSE GenericMessage)

(* C27: all attempts of one call carry the same headers, the Authorization *)
(* header among them, built from the Credential read when the call         *)
(* started: a Credential stored, replaced or cleared between the attempts  *)
(* does not show in the retries.                                           *)
C27_SameAuthorizationAllAttempts ==
    \A i \in 1..Len(sent) :
        LET h == sent[i].init.headers IN
        /\ h = sent[1].init.headers
        /\ h = BuildHeaders(call.token, HeadersOf(call.options), sent[i].init.body)
        /\ HeadersHas(h, "Authorization") = HeadersHas(sent[1].init.headers, "Authorization")
        /\ HeadersHas(h, "Authorization") =>
              HeadersGet(h, "Authorization") = HeadersGet(sent[1].init.headers, "Authorization")

(* Two attempts were made with Bearer T1 while the Credential was replaced *)
(* by T2 during the call                                                    *)
C27_Witness ==
    /\ Len(sent) = 2
    /\ rpc = "returned"
    /\ call.token = "T1"
    /\ cred = "T2"
    /\ \A i \in 1..2 : HeadersGet(sent[i].init.headers, "Authorization") = "Bearer T1"

(* Timer a fires in this step *)
Fires(a) == timers[a].st = "armed" /\ timers'[a].st = "fired"

====
